---- MODULE Spec2Model ----
(***************************************************************************)
(* Model of the two git-hook helpers of the repository:                    *)
(*   scripts/block_branch.py          (Branch Guard)                       *)
(*   scripts/add_repo_path_header.py  (Header Stamper)                     *)
(*                                                                         *)
(* Text is modelled as a sequence of tokens.  A token is a TLA+ string     *)
(* standing for a piece of text that no operation of the scripts splits:   *)
(* "#", " ", "/", ".", "..", "\n", "\r", a file-name stem ("a"), a suffix  *)
(* (".py") or a branch word ("main").  Concatenation of text is \o.        *)
(* A file on disk is its sequence of bytes, i.e. a token sequence that     *)
(* keeps "\r" and "\n" apart; Python's text-mode reading and writing are   *)
(* modelled by ReadLines and WriteLines.  The platform is POSIX            *)
(* (os.linesep = "\n", "/" is the only path separator).                    *)
(***************************************************************************)
EXTENDS Integers, Sequences, FiniteSets, TLC

VARIABLES prog, pc, exitCode, exc, git, stdout, branch,
          cwd, argv, fs, repo_root, i, run, fs0, fs1, opened, last

vars == <<prog, pc, exitCode, exc, git, stdout, branch,
          cwd, argv, fs, repo_root, i, run, fs0, fs1, opened, last>>

LF == "\n"
CR == "\r"
TAB == "\t"

\* Characters str.strip() removes from both ends.
Whitespace == {" ", LF, CR, TAB}

-----------------------------------------------------------------------------
(* Bounds of the model                                                     *)

\* Longest raw output of `git rev-parse --abbrev-ref HEAD`, in tokens.
MaxOut == 3
\* Longest argument list of the stamper.
MaxArgs == 3
\* Most newline-terminated lines of an initial file (an unterminated last
\* line may follow them).
MaxLines == 1
\* Number of successive invocations of the stamper on the same files.
MaxRuns == 2

-----------------------------------------------------------------------------
(* Text helpers                                                            *)

IsPrefix(p, s) == Len(p) <= Len(s) /\ SubSeq(s, 1, Len(p)) = p

\* Drop the first n tokens.
DropN(s, n) == SubSeq(s, n + 1, Len(s))

\* Whether text t occurs in text s.
Contains(s, t) ==
    \E k \in 0..(Len(s) - Len(t)) : SubSeq(s, k + 1, k + Len(t)) = t

RECURSIVE LStrip(_)
LStrip(s) ==
    IF s # <<>> /\ s[1] \in Whitespace THEN LStrip(Tail(s)) ELSE s

RECURSIVE RStrip(_)
RStrip(s) ==
    IF s # <<>> /\ s[Len(s)] \in Whitespace
    THEN RStrip(SubSeq(s, 1, Len(s) - 1))
    ELSE s

\* str.strip()
Strip(s) == RStrip(LStrip(s))

\* "".join(seqs)
RECURSIVE Flatten(_)
Flatten(ss) == IF ss = <<>> THEN <<>> ELSE ss[1] \o Flatten(Tail(ss))

-----------------------------------------------------------------------------
(* Text-mode file I/O (open(..., encoding="utf-8"), newline=None)          *)

\* Universal-newline translation on reading: "\r\n" and a lone "\r"
\* both become "\n".
RECURSIVE TranslateIn(_)
TranslateIn(bytes) ==
    IF bytes = <<>> THEN <<>>
    ELSE IF bytes[1] = CR
         THEN <<LF>> \o TranslateIn(IF Len(bytes) >= 2 /\ bytes[2] = LF
                                    THEN DropN(bytes, 2)
                                    ELSE Tail(bytes))
         ELSE <<bytes[1]>> \o TranslateIn(Tail(bytes))

\* Split text into lines, each keeping its "\n"; the last line may lack one.
RECURSIVE SplitKeepEnds(_, _)
SplitKeepEnds(text, cur) ==
    IF text = <<>> THEN (IF cur = <<>> THEN <<>> ELSE <<cur>>)
    ELSE IF text[1] = LF
         THEN <<cur \o <<LF>>>> \o SplitKeepEnds(Tail(text), <<>>)
         ELSE SplitKeepEnds(Tail(text), cur \o <<text[1]>>)

\* f.readlines()
ReadLines(bytes) == SplitKeepEnds(TranslateIn(bytes), <<>>)

\* os.linesep of the platform.
linesep == <<LF>>

\* Newline translation on writing: "\n" becomes os.linesep.
RECURSIVE TranslateOut(_)
TranslateOut(text) ==
    IF text = <<>> THEN <<>>
    ELSE (IF text[1] = LF THEN linesep ELSE <<text[1]>>)
         \o TranslateOut(Tail(text))

\* f.writelines(lines)
WriteLines(lines) == TranslateOut(Flatten(lines))

-----------------------------------------------------------------------------
(* pathlib (PurePosixPath / PosixPath)                                     *)
(* A Path is [abs |-> anchored at "/", parts |-> its components]; a        *)
(* component is the text between two "/".                                  *)

\* text.split("/")
RECURSIVE SplitSlash(_, _)
SplitSlash(text, cur) ==
    IF text = <<>> THEN <<cur>>
    ELSE IF text[1] = "/"
         THEN <<cur>> \o SplitSlash(Tail(text), <<>>)
         ELSE SplitSlash(Tail(text), cur \o <<text[1]>>)

\* Path(text): empty components and "." components are dropped.
ParsePath(text) ==
    [abs   |-> text # <<>> /\ text[1] = "/",
     parts |-> SelectSeq(SplitSlash(text, <<>>),
                         LAMBDA c : c # <<>> /\ c # <<".">>)]

\* Collapse ".." components; ".." at the root stays at the root.
RECURSIVE Normalize(_, _)
Normalize(parts, acc) ==
    IF parts = <<>> THEN acc
    ELSE IF parts[1] = <<"..">>
         THEN Normalize(Tail(parts),
                        IF acc = <<>> THEN acc
                        ELSE SubSeq(acc, 1, Len(acc) - 1))
         ELSE Normalize(Tail(parts), Append(acc, parts[1]))

\* Path.resolve() called in working directory dir (no symbolic links exist).
Resolve(p, dir) ==
    [abs   |-> TRUE,
     parts |-> Normalize((IF p.abs THEN <<>> ELSE dir.parts) \o p.parts, <<>>)]

\* path.relative_to(other): the Path below other, or ValueError.
RelativeTo(path, other) ==
    IF path.abs = other.abs /\ IsPrefix(other.parts, path.parts)
    THEN [raised |-> "none",
          value  |-> [type |-> "Path",
                      path |-> [abs   |-> FALSE,
                                parts |-> DropN(path.parts, Len(other.parts))]]]
    ELSE [raised |-> "ValueError", value |-> [type |-> "NoneType"]]

\* path.name: the last component, a str.
Name(path) == IF path.parts = <<>> THEN <<>> ELSE path.parts[Len(path.parts)]

\* "/".join(parts)
RECURSIVE JoinSlash(_)
JoinSlash(parts) ==
    IF parts = <<>> THEN <<>>
    ELSE IF Len(parts) = 1 THEN parts[1]
         ELSE parts[1] \o <<"/">> \o JoinSlash(Tail(parts))

\* Path.as_posix()
AsPosix(p) ==
    IF p.parts = <<>> THEN (IF p.abs THEN <<"/">> ELSE <<".">>)
    ELSE (IF p.abs THEN <<"/">> ELSE <<>>) \o JoinSlash(p.parts)

\* Mutant of EndsWithPy: the suffix test is missing.
EndsWithAnything(text) == text # <<>>

\* file.endswith(".py")
EndsWithPy(text) == text # <<>> /\ text[Len(text)] = ".py"

\* line.startswith("# ")
StartsWithComment(line) == IsPrefix(<<"#", " ">>, line)

-----------------------------------------------------------------------------
(* scripts/add_repo_path_header.py: the functions                          *)

\* What subprocess.check_output(["git", ...]) can do: return the command's
\* standard output ("ok"), raise CalledProcessError because git exited
\* non-zero ("nonzero"), or raise FileNotFoundError because no git
\* executable can be started ("unavailable").
GitStatuses == {"ok", "nonzero", "unavailable"}

\* Mutant of get_repo_root: CalledProcessError is not caught.
get_repo_root_uncaught(g, dir) ==
    IF g.status = "ok"
    THEN [raised |-> "none", value |-> ParsePath(Strip(g.out))]
    ELSE [raised |-> IF g.status = "nonzero" THEN "CalledProcessError"
                     ELSE "FileNotFoundError",
          value  |-> dir]

\* get_repo_root(), called in working directory dir with git behaving as g.
\* Only CalledProcessError is caught.
get_repo_root(g, dir) ==
    CASE g.status = "ok"      -> [raised |-> "none",
                                  value  |-> ParsePath(Strip(g.out))]
      [] g.status = "nonzero" -> [raised |-> "none", value |-> dir]
      [] OTHER                -> [raised |-> "FileNotFoundError",
                                  value  |-> dir]

\* Lines 21-24: the path relative to the root as a Path object, or, when
\* relative_to raises ValueError, path.name, which is a str.
rel_path(path, root) ==
    LET r == RelativeTo(path, root)
    IN  IF r.raised = "none" THEN r.value
        ELSE [type |-> "str", text |-> Name(path)]

\* Mutant of header: the "\n" ending the header line is missing.
header_no_newline(rp) ==
    IF rp.type = "Path"
    THEN [raised |-> "none", value |-> <<"#", " ">> \o AsPosix(rp.path)]
    ELSE [raised |-> "AttributeError", value |-> <<>>]

\* Line 25: f"# {rel_path.as_posix()}\n".  A str has no as_posix attribute.
header(rp) ==
    IF rp.type = "Path"
    THEN [raised |-> "none",
          value  |-> <<"#", " ">> \o AsPosix(rp.path) \o <<LF>>]
    ELSE [raised |-> "AttributeError", value |-> <<>>]

\* Mutant of with_header: the first line is replaced whatever it is.
with_header_overwrites(lines, h) ==
    IF lines # <<>> THEN [lines EXCEPT ![1] = h] ELSE <<h>> \o lines

\* Mutant of with_header: the header is inserted whatever the first line is.
with_header_inserts(lines, h) ==
    IF lines # <<>> /\ lines[1] = h THEN lines ELSE <<h>> \o lines

\* Lines 31-35: replace a first comment line, else insert the header.
with_header(lines, h) ==
    IF lines # <<>> /\ StartsWithComment(lines[1])
    THEN IF lines[1] # h THEN [lines EXCEPT ![1] = h] ELSE lines
    ELSE <<h>> \o lines

\* The state of the file at path p: "ok", "denied" (no read/write
\* permission) or "absent".
Stat(files, p) == IF p \in DOMAIN files THEN files[p].st ELSE "absent"

\* The exception open(path, "r+") raises on a file in state st.
OpenError(st) ==
    IF st = "absent" THEN "FileNotFoundError" ELSE "PermissionError"

\* ensure_header(filepath, repo_root) up to the bytes it is about to write.
ensure_header(filepath, root, dir, files) ==
    LET path == Resolve(ParsePath(filepath), dir)
        h    == header(rel_path(path, root))
    IN  IF h.raised # "none"
        THEN [raised |-> h.raised, path |-> path, opens |-> FALSE,
              data |-> <<>>]
        ELSE IF Stat(files, path) # "ok"
        THEN [raised |-> OpenError(Stat(files, path)), path |-> path,
              opens |-> TRUE, data |-> <<>>]
        ELSE [raised |-> "none", path |-> path, opens |-> TRUE,
              data |-> WriteLines(with_header(ReadLines(files[path].bytes),
                                              h.value))]

-----------------------------------------------------------------------------
(* scripts/block_branch.py: the functions                                  *)

\* Mutant of Protected: "master" is missing from the tuple.
ProtectedMainOnly == {<<"main">>}

\* Line 9: the tuple ("main", "master").
Protected == {<<"main">>, <<"master">>}

\* Line 10: print(f'Commits diretos para "{branch}" não são permitidos.')
Message(b) ==
    <<"Commits diretos para \"">> \o b \o <<"\" não são permitidos.">>
    \o <<LF>>

-----------------------------------------------------------------------------
(* Inputs of the model                                                     *)

\* Tokens of the raw output of `git rev-parse --abbrev-ref HEAD`.
BranchTokens == {"main", "master", "dev", " ", LF}

\* Every text over alphabet of at most n tokens.
TextsUpTo(alphabet, n) == UNION {[1..k -> alphabet] : k \in 0..n}

\* What the guard's git query can do.
GuardGits ==
    {[status |-> "ok", out |-> o] : o \in TextsUpTo(BranchTokens, MaxOut)}
    \cup {[status |-> s, out |-> <<>>] : s \in GitStatuses \ {"ok"}}

\* The work tree of the repository, a directory in it and one outside it.
RepoTop == ParsePath(<<"/", "r">>)
SubDir == ParsePath(<<"/", "r", "/", "d">>)
Outside == ParsePath(<<"/", "o">>)

\* What `git rev-parse --show-toplevel` can do in working directory dir:
\* inside the work tree it prints the work tree's path and a newline.
StamperGits(dir) ==
    (IF IsPrefix(RepoTop.parts, dir.parts)
     THEN {[status |-> "ok", out |-> AsPosix(RepoTop) \o <<LF>>]}
     ELSE {})
    \cup {[status |-> s, out |-> <<>>] : s \in GitStatuses \ {"ok"}}

\* The command-line arguments: a.py, d/a.py, ../a.py, /o/a.py, n.txt,
\* m.py (names no file) and p.py (a file without permissions).
Args ==
    { <<"a", ".py">>,
      <<"d", "/", "a", ".py">>,
      <<"..", "/", "a", ".py">>,
      <<"/", "o", "/", "a", ".py">>,
      <<"n", ".txt">>,
      <<"m", ".py">>,
      <<"p", ".py">> }

ArgLists == TextsUpTo(Args, MaxArgs)

\* The files that exist.
Files ==
    { ParsePath(<<"/", "r", "/", "a", ".py">>),
      ParsePath(<<"/", "r", "/", "d", "/", "a", ".py">>),
      ParsePath(<<"/", "o", "/", "a", ".py">>),
      ParsePath(<<"/", "r", "/", "n", ".txt">>),
      ParsePath(<<"/", "r", "/", "p", ".py">>) }

DeniedFile == ParsePath(<<"/", "r", "/", "p", ".py">>)

\* Line texts: an empty line, "#" (no comment marker), a comment that is
\* no header, and the header of a file a.py in the root directory.
Bodies ==
    { <<>>, <<"#">>, <<"#", " ", "x">>, <<"#", " ", "a", ".py">> }

\* Line terminators found in files.
Terminators == { <<LF>>, <<CR, LF>>, <<CR>> }

TerminatedLines == {b \o t : b \in Bodies, t \in Terminators}

\* File contents: at most MaxLines terminated lines, then possibly a last
\* line without terminator.
Contents ==
    {Flatten(ls) \o tl : ls \in TextsUpTo(TerminatedLines, MaxLines),
                         tl \in Bodies}

\* The content every file has when several arguments are given.
BatchContent == <<"#", LF>>

\* Value of `last` before any ensure_header call has written.
NoCall ==
    [valid |-> FALSE, path |-> RepoTop, root |-> RepoTop,
     before |-> <<>>, after |-> <<>>]

-----------------------------------------------------------------------------
(* Initial states: one of the two programs is about to start.              *)

InitGuard ==
    /\ prog = "guard"
    /\ git \in GuardGits
    /\ cwd = RepoTop
    /\ argv = <<>>
    /\ fs = [f \in {} |-> 0]

InitStamper ==
    /\ prog = "stamper"
    /\ cwd \in {RepoTop, SubDir, Outside}
    /\ git \in StamperGits(cwd)
    /\ argv \in ArgLists
    /\ \E c \in (IF Len(argv) <= 1 THEN Contents ELSE {BatchContent}) :
          fs = [f \in Files |->
                  [st    |-> IF f = DeniedFile THEN "denied" ELSE "ok",
                   bytes |-> c]]

Init ==
    /\ InitGuard \/ InitStamper
    /\ pc = "start"
    /\ exitCode = -1
    /\ exc = "none"
    /\ stdout = <<>>
    /\ branch = <<>>
    /\ repo_root = cwd
    /\ i = 0
    /\ run = 1
    /\ fs0 = fs
    /\ fs1 = fs
    /\ opened = {}
    /\ last = NoCall

-----------------------------------------------------------------------------
(* Branch Guard                                                            *)

\* An exception nobody catches: traceback on stderr, exit status 1.
Raise(e) ==
    /\ pc' = "crashed"
    /\ exc' = e
    /\ exitCode' = 1

\* Lines 5-7: branch = check_output([...]).strip()
GuardQuery ==
    /\ prog = "guard" /\ pc = "start"
    /\ IF git.status = "ok"
       THEN /\ branch' = Strip(git.out)
            /\ pc' = "check"
            /\ UNCHANGED <<exc, exitCode>>
       ELSE /\ Raise(IF git.status = "nonzero" THEN "CalledProcessError"
                     ELSE "FileNotFoundError")
            /\ UNCHANGED branch
    /\ UNCHANGED <<prog, git, stdout, cwd, argv, fs, repo_root, i, run,
                   fs0, fs1, opened, last>>

\* Lines 9-11: refuse a protected branch, else fall off the end of the
\* script (exit status 0).
GuardCheck ==
    /\ prog = "guard" /\ pc = "check"
    /\ IF branch \in Protected
       THEN stdout' = stdout \o Message(branch) /\ exitCode' = 1
       ELSE stdout' = stdout /\ exitCode' = 0
    /\ pc' = "done"
    /\ UNCHANGED <<prog, exc, git, branch, cwd, argv, fs, repo_root, i, run,
                   fs0, fs1, opened, last>>

-----------------------------------------------------------------------------
(* Header Stamper                                                          *)

\* Line 42: repo_root = get_repo_root()
GetRepoRoot ==
    /\ prog = "stamper" /\ pc = "start"
    /\ LET r == get_repo_root(git, cwd)
       IN  IF r.raised = "none"
           THEN /\ repo_root' = r.value
                /\ i' = 1
                /\ pc' = "loop"
                /\ UNCHANGED <<exc, exitCode>>
           ELSE /\ Raise(r.raised)
                /\ UNCHANGED <<repo_root, i>>
    /\ UNCHANGED <<prog, git, stdout, branch, cwd, argv, fs, run,
                   fs0, fs1, opened, last>>

\* Lines 43-44: an argument that does not end in ".py" is passed over.
SkipArg ==
    /\ prog = "stamper" /\ pc = "loop" /\ i <= Len(argv)
    /\ ~EndsWithPy(argv[i])
    /\ i' = i + 1
    /\ UNCHANGED <<prog, pc, exitCode, exc, git, stdout, branch, cwd, argv,
                   fs, repo_root, run, fs0, fs1, opened, last>>

\* Lines 43-45: ensure_header(file, repo_root) runs to its end.
StampArg ==
    /\ prog = "stamper" /\ pc = "loop" /\ i <= Len(argv)
    /\ EndsWithPy(argv[i])
    /\ LET r == ensure_header(argv[i], repo_root, cwd, fs)
       IN  /\ r.raised = "none"
           /\ fs' = [fs EXCEPT ![r.path].bytes = r.data]
           /\ opened' = opened \cup {r.path}
           /\ last' = [valid |-> TRUE, path |-> r.path, root |-> repo_root,
                       before |-> fs[r.path].bytes, after |-> r.data]
    /\ i' = i + 1
    /\ UNCHANGED <<prog, pc, exitCode, exc, git, stdout, branch, cwd, argv,
                   repo_root, run, fs0, fs1>>

\* Mutant of StampArgRaises: the exception is caught and the loop goes on.
StampArgSwallows ==
    /\ prog = "stamper" /\ pc = "loop" /\ i <= Len(argv)
    /\ EndsWithPy(argv[i])
    /\ ensure_header(argv[i], repo_root, cwd, fs).raised # "none"
    /\ i' = i + 1
    /\ UNCHANGED <<prog, pc, exitCode, exc, git, stdout, branch, cwd, argv,
                   fs, repo_root, run, fs0, fs1, opened, last>>

\* Lines 43-45: ensure_header raises before it writes (AttributeError at
\* line 25, or OSError from open at line 27); main does not catch it.
StampArgRaises ==
    /\ prog = "stamper" /\ pc = "loop" /\ i <= Len(argv)
    /\ EndsWithPy(argv[i])
    /\ LET r == ensure_header(argv[i], repo_root, cwd, fs)
       IN  /\ r.raised # "none"
           /\ Raise(r.raised)
           /\ opened' = IF r.opens THEN opened \cup {r.path} ELSE opened
    /\ UNCHANGED <<prog, git, stdout, branch, cwd, argv, fs, repo_root, i,
                   run, fs0, fs1, last>>

\* Lines 37-38: open(path, "w") has truncated the file and the write fails
\* (an I/O error) after k of the bytes have reached the file.
StampArgWriteFails ==
    /\ prog = "stamper" /\ pc = "loop" /\ i <= Len(argv)
    /\ EndsWithPy(argv[i])
    /\ LET r == ensure_header(argv[i], repo_root, cwd, fs)
       IN  /\ r.raised = "none"
           /\ \E k \in 0..Len(r.data) :
                 fs' = [fs EXCEPT ![r.path].bytes = SubSeq(r.data, 1, k)]
           /\ opened' = opened \cup {r.path}
    /\ Raise("OSError")
    /\ UNCHANGED <<prog, git, stdout, branch, cwd, argv, repo_root, i, run,
                   fs0, fs1, last>>

\* Mutant of Return: main returns the number of arguments.
ReturnCount ==
    /\ prog = "stamper" /\ pc = "loop" /\ i > Len(argv)
    /\ pc' = "done"
    /\ exitCode' = Len(argv)
    /\ UNCHANGED <<prog, exc, git, stdout, branch, cwd, argv, fs, repo_root,
                   i, run, fs0, fs1, opened, last>>

\* Lines 46 and 50: the loop is over, sys.exit(main()) exits with 0.
Return ==
    /\ prog = "stamper" /\ pc = "loop" /\ i > Len(argv)
    /\ pc' = "done"
    /\ exitCode' = 0
    /\ UNCHANGED <<prog, exc, git, stdout, branch, cwd, argv, fs, repo_root,
                   i, run, fs0, fs1, opened, last>>

\* Lines 49-50: the hook runner starts the script again with the same
\* arguments, in the same directory, after a run that completed.
Invoke ==
    /\ prog = "stamper" /\ pc = "done" /\ run < MaxRuns
    /\ run' = run + 1
    /\ fs1' = fs
    /\ pc' = "start"
    /\ exitCode' = -1
    /\ i' = 0
    /\ UNCHANGED <<prog, exc, git, stdout, branch, cwd, argv, fs, repo_root,
                   fs0, opened, last>>

Next ==
    \/ GuardQuery
    \/ GuardCheck
    \/ GetRepoRoot
    \/ SkipArg
    \/ StampArg
    \/ StampArgRaises
    \/ StampArgWriteFails
    \/ Return
    \/ Invoke

Spec == Init /\ [][Next]_vars

-----------------------------------------------------------------------------
(* Vocabulary of the properties                                            *)

\* The files below each root directory with their path relative to it,
\* written out by hand.
InsideTable ==
    { [root |-> RepoTop, path |-> ParsePath(<<"/", "r", "/", "a", ".py">>),
       rel  |-> <<"a", ".py">>],
      [root |-> RepoTop,
       path |-> ParsePath(<<"/", "r", "/", "d", "/", "a", ".py">>),
       rel  |-> <<"d", "/", "a", ".py">>],
      [root |-> RepoTop, path |-> ParsePath(<<"/", "r", "/", "p", ".py">>),
       rel  |-> <<"p", ".py">>],
      [root |-> SubDir,
       path |-> ParsePath(<<"/", "r", "/", "d", "/", "a", ".py">>),
       rel  |-> <<"a", ".py">>],
      [root |-> Outside, path |-> ParsePath(<<"/", "o", "/", "a", ".py">>),
       rel  |-> <<"a", ".py">>] }

InsideRoot(path, root) ==
    \E e \in InsideTable : e.root = root /\ e.path = path

\* "# <relative-path>", the text of the header line without terminator.
HeaderText(path, root) ==
    LET e == CHOOSE e \in InsideTable : e.root = root /\ e.path = path
    IN  <<"#", " ">> \o e.rel

\* The header line as a text-mode line.
HeaderLine(path, root) == HeaderText(path, root) \o <<LF>>

\* The file as Python's text mode presents it: its lines, each with "\n"
\* for whatever terminator the bytes hold.
Lines(bytes) == ReadLines(bytes)

\* The text of the first line, without terminator; <<>> for an empty file.
FirstLineText(bytes) ==
    IF Lines(bytes) = <<>> THEN <<>>
    ELSE LET l == Lines(bytes)[1]
         IN  IF l[Len(l)] = LF THEN SubSeq(l, 1, Len(l) - 1) ELSE l

\* The file holds no "\r": its only line terminator is "\n".
NoCR(bytes) == \A k \in 1..Len(bytes) : bytes[k] # CR

\* The bytes after the first "\n"; none when there is no "\n".
AfterFirstLine(bytes) ==
    IF \E k \in 1..Len(bytes) : bytes[k] = LF
    THEN DropN(bytes, CHOOSE k \in 1..Len(bytes) :
                         /\ bytes[k] = LF
                         /\ \A j \in 1..(k - 1) : bytes[j] # LF)
    ELSE <<>>

\* The file the k-th argument names.
FileOfArg(k) == Resolve(ParsePath(argv[k]), cwd)

\* ensure_header has been called for the k-th argument in this run.
Handled(k) ==
    /\ prog = "stamper"
    /\ k \in 1..Len(argv)
    /\ EndsWithPy(argv[k])
    /\ \/ pc \in {"loop", "done"} /\ k < i
       \/ pc = "crashed" /\ i >= 1 /\ k <= i

-----------------------------------------------------------------------------
(* Branch Guard                                                            *)

\* C1: for every branch name the query returns, the guard exits with code 1
\* and prints a message containing the name iff the name is exactly "main"
\* or "master"; for every other name it exits with code 0 and prints
\* nothing.
C1_GuardVerdict ==
    (prog = "guard" /\ pc = "done") =>
        /\ \A b \in TextsUpTo(BranchTokens \ Whitespace, MaxOut - 1) :
              git.out = b \o <<LF>> => branch = b
        /\ IF branch = <<"main">> \/ branch = <<"master">>
           THEN exitCode = 1 /\ Contains(stdout, branch)
           ELSE exitCode = 0 /\ stdout = <<>>

\* git printed "master\n" and the guard refused the commit.
C1_Witness ==
    /\ prog = "guard" /\ pc = "done"
    /\ git.out = <<"master", LF>>
    /\ exitCode = 1
    /\ Contains(stdout, <<"master">>)

-----------------------------------------------------------------------------
(* Header Stamper: one call of ensure_header                               *)

\* C2: when ensure_header runs on a file inside the root whose first line
\* does not start with "# " (the empty file included), the file's lines
\* afterwards are the line "# <relative-path>" followed by the original
\* lines, unchanged and in order.  Lines are the lines of Python's text
\* mode; for a file without "\r" the same is stated of its bytes.
C2_InsertCase ==
    (last.valid /\ ~IsPrefix(<<"#", " ">>, last.before)) =>
        /\ InsideRoot(last.path, last.root)
        /\ Lines(last.after) =
              <<HeaderLine(last.path, last.root)>> \o Lines(last.before)
        /\ NoCR(last.before) =>
              last.after = HeaderLine(last.path, last.root) \o last.before

\* d/a.py, holding the two lines "#" and "#", got "# d/a.py" in front.
C2_Witness ==
    /\ last.valid
    /\ last.root = RepoTop
    /\ last.before = <<"#", LF, "#">>
    /\ Lines(last.after) =
          << <<"#", " ", "d", "/", "a", ".py", LF>>, <<"#", LF>>, <<"#">> >>

\* C3: when ensure_header runs on a file whose first line is a comment but
\* not the correct header, only that line is replaced: the first line
\* becomes "# <relative-path>", the number of lines is unchanged and every
\* later line is as it was.  Lines are the lines of Python's text mode; for
\* a file without "\r" the same is stated of its bytes.
C3_ReplaceCase ==
    (/\ last.valid
     /\ IsPrefix(<<"#", " ">>, last.before)
     /\ InsideRoot(last.path, last.root)
     /\ FirstLineText(last.before) # HeaderText(last.path, last.root)) =>
        /\ Len(Lines(last.after)) = Len(Lines(last.before))
        /\ Lines(last.after)[1] = HeaderLine(last.path, last.root)
        /\ \A k \in 2..Len(Lines(last.before)) :
              Lines(last.after)[k] = Lines(last.before)[k]
        /\ NoCR(last.before) =>
              last.after = HeaderLine(last.path, last.root)
                           \o AfterFirstLine(last.before)

\* a.py held "# x" and a second line "#"; only the first line changed.
C3_Witness ==
    /\ last.valid
    /\ last.before = <<"#", " ", "x", LF, "#">>
    /\ last.after = <<"#", " ", "a", ".py", LF, "#">>

\* C4: when the first line of the file already is "# <relative-path>",
\* ensure_header leaves the file byte-identical, also when that line is the
\* last one and has no trailing newline.
C4_ByteIdentical ==
    (/\ last.valid
     /\ InsideRoot(last.path, last.root)
     /\ FirstLineText(last.before) = HeaderText(last.path, last.root)) =>
        last.after = last.before

-----------------------------------------------------------------------------
(* Header Stamper: whole runs                                              *)

\* C5: running the stamper a second time on the same files with the same
\* root changes nothing: after the second run every file holds exactly what
\* the first run left.
C5_Idempotent ==
    (prog = "stamper" /\ run >= 2 /\ pc = "done") => fs = fs1

\* Two completed runs over a.py, which held a wrong comment without newline;
\* the first run rewrote it, the second run went through it again.
C5_Witness ==
    /\ prog = "stamper" /\ run = 2 /\ pc = "done"
    /\ argv = << <<"a", ".py">> >>
    /\ fs0[FileOfArg(1)].bytes = <<"#", " ", "x">>
    /\ fs1[FileOfArg(1)].bytes = <<"#", " ", "a", ".py", LF>>
    /\ last.valid /\ last.before = fs1[FileOfArg(1)].bytes

\* C6: a file whose argument does not end in ".py" is skipped: it is never
\* opened, and it holds after the run what it held before, whatever the
\* other arguments are.
C6_SkipsOtherSuffixes ==
    prog = "stamper" =>
        \A k \in 1..Len(argv) :
            argv[k][Len(argv[k])] # ".py" =>
                /\ FileOfArg(k) \notin opened
                /\ FileOfArg(k) \in DOMAIN fs =>
                      fs[FileOfArg(k)] = fs0[FileOfArg(k)]

\* The run a.py, n.txt, d/a.py completed: both .py files were rewritten,
\* n.txt exists and was passed over.
C6_Witness ==
    /\ prog = "stamper" /\ pc = "done"
    /\ argv = << <<"a", ".py">>, <<"n", ".txt">>, <<"d", "/", "a", ".py">> >>
    /\ FileOfArg(2) \in DOMAIN fs
    /\ FileOfArg(1) \in opened /\ FileOfArg(3) \in opened
    /\ fs[FileOfArg(1)] # fs0[FileOfArg(1)]
    /\ fs[FileOfArg(3)] # fs0[FileOfArg(3)]

\* C7: when ensure_header is called for an existing .py file that lies
\* outside the root, it raises nothing and the file ends up with the first
\* line "# <base-name>".
C7_OutsideRootFallback ==
    \A k \in 1..Len(argv) :
        (/\ Handled(k)
         /\ Stat(fs0, FileOfArg(k)) = "ok"
         /\ ~IsPrefix(repo_root.parts, FileOfArg(k).parts)) =>
            /\ ~(pc = "crashed" /\ i = k /\ exc = "AttributeError")
            /\ FirstLineText(fs[FileOfArg(k)].bytes) =
                  <<"#", " ">> \o Name(FileOfArg(k))

\* C8 as stated: whatever way the root lookup fails, the run goes on, with
\* the working directory as root.
C8_AnyLookupFailureFallsBack ==
    (prog = "stamper" /\ git.status # "ok" /\ pc # "start") =>
        /\ ~(pc = "crashed" /\ i = 0)
        /\ repo_root = cwd

\* C8 amended: when git exits non-zero the run goes on with the working
\* directory as root, and every header written is the path relative to the
\* working directory; when git cannot be started, FileNotFoundError ends
\* the run with status 1 before any file is touched.
C8_NonZeroExitFallsBack ==
    (prog = "stamper" /\ pc # "start") =>
        /\ git.status = "nonzero" =>
              /\ ~(pc = "crashed" /\ i = 0)
              /\ repo_root = cwd
              /\ last.valid =>
                    /\ InsideRoot(last.path, cwd)
                    /\ FirstLineText(last.after) = HeaderText(last.path, cwd)
        /\ git.status = "unavailable" =>
              /\ pc = "crashed" /\ i = 0
              /\ exc = "FileNotFoundError"
              /\ exitCode = 1
              /\ fs = fs0 /\ opened = {}

\* In /r/d, where git exited non-zero, a.py got "# a.py" (not "# d/a.py")
\* and the run completed with exit code 0.
C8_Witness ==
    /\ prog = "stamper" /\ pc = "done" /\ exitCode = 0
    /\ git.status = "nonzero"
    /\ cwd = SubDir
    /\ last.valid
    /\ last.path = ParsePath(<<"/", "r", "/", "d", "/", "a", ".py">>)
    /\ FirstLineText(last.after) = <<"#", " ", "a", ".py">>

\* C9 as stated: however the processing of the files ends, the exit code
\* is 0.
C9_ExitAlwaysZero ==
    (prog = "stamper" /\ pc \in {"done", "crashed"} /\ i >= 1) =>
        exitCode = 0

\* C9 amended: the exit code is 0 whenever main returns, for every argument
\* list; when an exception leaves main the process ends with status 1.
C9_ExitZeroOnReturn ==
    prog = "stamper" =>
        /\ pc = "done" => exitCode = 0 /\ i = Len(argv) + 1
        /\ pc = "crashed" => exitCode = 1 /\ exc # "none"
        /\ pc \in {"start", "loop"} => exitCode = -1

\* A run over three arguments, one of them skipped, returned 0.
C9_Witness ==
    /\ prog = "stamper" /\ pc = "done" /\ exitCode = 0
    /\ Len(argv) = 3
    /\ \E k \in 1..3 : argv[k][Len(argv[k])] # ".py"
    /\ last.valid


\* The k-th argument is one ensure_header cannot get through: its file is
\* absent or without permissions, or lies outside the root.
Failing(k) ==
    \/ Stat(fs0, FileOfArg(k)) # "ok"
    \/ ~InsideRoot(FileOfArg(k), repo_root)

\* The loop never moves past a .py argument that fails.
StopsAtFailure ==
    \A k \in 1..Len(argv) :
        (Handled(k) /\ (pc = "crashed" => k < i)) => ~Failing(k)

\* C10 as stated: the arguments are processed in order and a failure at one
\* of them ends the run: the file of every later .py argument holds what it
\* held when the run began, and the file of every earlier .py argument
\* still starts with its header.
C10_AbortLeavesRest ==
    /\ prog = "stamper" => StopsAtFailure
    /\ (prog = "stamper" /\ pc = "crashed" /\ i >= 1) =>
          /\ \A k \in (i + 1)..Len(argv) :
                (EndsWithPy(argv[k]) /\ FileOfArg(k) \in DOMAIN fs) =>
                    fs[FileOfArg(k)] = fs1[FileOfArg(k)]
          /\ \A k \in 1..(i - 1) :
                EndsWithPy(argv[k]) =>
                    FirstLineText(fs[FileOfArg(k)].bytes) =
                        HeaderText(FileOfArg(k), repo_root)

\* C10 amended: as stated, for the files no other argument names; a later
\* argument's file that an argument up to the failing one names too has
\* been rewritten already, and an earlier argument's file loses its header
\* again when it is the very file whose rewriting failed.
C10_AbortLeavesOtherFiles ==
    /\ prog = "stamper" => StopsAtFailure
    /\ (prog = "stamper" /\ pc = "crashed" /\ i >= 1) =>
          /\ \A k \in (i + 1)..Len(argv) :
                (/\ EndsWithPy(argv[k])
                 /\ FileOfArg(k) \in DOMAIN fs
                 /\ \A j \in 1..i :
                       EndsWithPy(argv[j]) => FileOfArg(j) # FileOfArg(k)) =>
                    fs[FileOfArg(k)] = fs1[FileOfArg(k)]
          /\ \A k \in 1..(i - 1) :
                (EndsWithPy(argv[k]) /\ FileOfArg(k) # FileOfArg(i)) =>
                    FirstLineText(fs[FileOfArg(k)].bytes) =
                        HeaderText(FileOfArg(k), repo_root)

\* The run a.py, m.py, d/a.py stopped at m.py, which does not exist: a.py
\* keeps its new header and d/a.py is as it was.
C10_Witness ==
    /\ prog = "stamper" /\ pc = "crashed" /\ i = 2
    /\ exc = "FileNotFoundError"
    /\ argv = << <<"a", ".py">>, <<"m", ".py">>, <<"d", "/", "a", ".py">> >>
    /\ fs[FileOfArg(1)] # fs0[FileOfArg(1)]
    /\ FirstLineText(fs[FileOfArg(1)].bytes) = <<"#", " ", "a", ".py">>
    /\ fs[FileOfArg(3)] = fs0[FileOfArg(3)]

====
